---- MODULE Spec2Model ----
(***************************************************************************)
(* Model of the Gap Score reference validator, validators/gap-score.go.    *)
(*                                                                         *)
(* One run of the command is one behaviour: the command line and the two   *)
(* result files are chosen in Init, and main() advances through its        *)
(* statements (pc).  Scores are float64 values in the program; the model   *)
(* carries them as an integer number of tenths (GapScore = 287 is 28.7)    *)
(* and computes that integer with the same IEEE-754 binary64 operations    *)
(* the program performs (division, two multiplications, math.Round), on    *)
(* explicit 53-bit significands.                                           *)
(***************************************************************************)
EXTENDS Integers, Sequences, FiniteSets, TLC

(***************************************************************************)
(* Bounds of the model.                                                    *)
(***************************************************************************)
MaxSealed == 2      \* longest sealed result set drawn from TestPool
MaxOpen == 1        \* longest open result set drawn from TestPool
MaxTotal == 80      \* largest total of the uniform result sets (ScoreRuns)

(***************************************************************************)
(* Program constants.                                                      *)
(***************************************************************************)
specVersion == "1.0.0"

categories == <<"happy_path", "edge_case", "error_handling", "security">>

\* thresholds are in tenths: 15 is 150.  Indicators are named by code point.
levels ==
  << [threshold |-> 0,    name |-> "perfect",     indicator |-> "U+2705"],
     [threshold |-> 150,  name |-> "minor",       indicator |-> "U+1F7E2"],
     [threshold |-> 300,  name |-> "moderate",    indicator |-> "U+1F7E1"],
     [threshold |-> 500,  name |-> "significant", indicator |-> "U+1F7E0"],
     [threshold |-> 1000, name |-> "critical",    indicator |-> "U+1F534"] >>

\* width of the significand of a float64
MantBits == 53

(***************************************************************************)
(* float64 arithmetic.  A positive float64 is [zero, m, e]: m is the       *)
(* 53-bit significand, least significant bit first, top bit 1, and the     *)
(* value is m * 2^e.  Only the operations of round1 and of the score       *)
(* expression are modelled, on the non-negative finite values they see.    *)
(***************************************************************************)
Pow2Table ==
  << 1, 2, 4, 8, 16, 32, 64, 128, 256, 512, 1024, 2048, 4096, 8192, 16384,
     32768, 65536, 131072, 262144, 524288, 1048576, 2097152, 4194304,
     8388608, 16777216, 33554432, 67108864, 134217728, 268435456,
     536870912, 1073741824 >>

Pow2(n) == Pow2Table[n + 1]

\* the integer a bit string of at most 30 bits stands for
RECURSIVE BitsToInt(_)
BitsToInt(bits) == IF bits = <<>> THEN 0 ELSE bits[1] + 2 * BitsToInt(Tail(bits))

\* bit i (from 1, least significant) of the integer n
BitOf(n, i) == (n \div Pow2(i - 1)) % 2

\* number of bits of the integer n > 0
BitLen(n) == CHOOSE k \in 1..30 : Pow2(k - 1) <= n /\ n < Pow2(k)

FloatZero == [zero |-> TRUE, m |-> <<>>, e |-> 0]

\* bits + 1, for bits that are not all ones
Increment(bits) ==
  LET k == CHOOSE j \in 1..Len(bits) :
             bits[j] = 0 /\ \A i \in 1..(j - 1) : bits[i] = 1
  IN  [i \in 1..Len(bits) |-> IF i < k THEN 0 ELSE IF i = k THEN 1 ELSE bits[i]]

\* Round the exact value bits * 2^e (plus a nonzero tail below the lowest
\* bit when inexact) to 53 bits, round-to-nearest, ties to even: the
\* rounding every float64 operation applies to its exact result.
RoundNearestEven(bits, inexact, e) ==
  LET d == Len(bits) - MantBits
      kept == SubSeq(bits, d + 1, Len(bits))
      roundBit == IF d >= 1 THEN bits[d] ELSE 0
      sticky == inexact \/ \E i \in 1..(d - 1) : bits[i] = 1
      up == roundBit = 1 /\ (sticky \/ kept[1] = 1)
  IN  IF ~up THEN [zero |-> FALSE, m |-> kept, e |-> e + d]
      ELSE IF \A i \in 1..MantBits : kept[i] = 1
           THEN [zero |-> FALSE,
                 m |-> [i \in 1..MantBits |-> IF i = MantBits THEN 1 ELSE 0],
                 e |-> e + d + 1]
           ELSE [zero |-> FALSE, m |-> Increment(kept), e |-> e + d]

\* 2^j mod m, by repeated squaring (m < 2^15)
RECURSIVE PowMod2(_, _)
PowMod2(j, m) ==
  IF j = 0 THEN 1 % m
  ELSE IF j % 2 = 1 THEN (2 * PowMod2(j - 1, m)) % m
  ELSE LET h == PowMod2(j \div 2, m) IN (h * h) % m

\* float64(a) / float64(b) for integers 0 <= a <= b, 0 < b < 2^14.
\* With 2^k the scaling that brings a/b into [1, 2), the quotient bit of
\* weight 2^-j is floor(a * 2^(k+j) / b) mod 2; 53 bits and two more are
\* taken, and what is left of the division makes the result inexact.
FDiv(a, b) ==
  IF a = 0 THEN FloatZero
  ELSE LET k == CHOOSE j \in 0..14 :
                  a * Pow2(j) >= b /\ \A i \in 0..(j - 1) : a * Pow2(i) < b
           n == (a * Pow2(k)) % (2 * b)
           last == MantBits + 1
           q == [i \in 1..(MantBits + 2) |->
                   IF (n * PowMod2(last + 1 - i, 2 * b)) % (2 * b) >= b
                   THEN 1 ELSE 0]
           rest == ((n % b) * PowMod2(last, b)) % b
       IN  RoundNearestEven(q, rest # 0, 0 - k - last)

\* bits * c in binary, for 53 bits and a constant 0 < c < 2^7: the product
\* of three limbs of 18, 18 and 17 bits with carries
MulSmall(bits, c) ==
  LET p0 == BitsToInt(SubSeq(bits, 1, 18)) * c
      p1 == BitsToInt(SubSeq(bits, 19, 36)) * c + p0 \div Pow2(18)
      p2 == BitsToInt(SubSeq(bits, 37, MantBits)) * c + p1 \div Pow2(18)
  IN  [i \in 1..(36 + BitLen(p2)) |->
         IF i <= 18 THEN BitOf(p0 % Pow2(18), i)
         ELSE IF i <= 36 THEN BitOf(p1 % Pow2(18), i - 18)
         ELSE BitOf(p2, i - 36)]

\* x * c for a float64 x and a small integer constant c (100, 10)
FMul(x, c) ==
  IF x.zero THEN FloatZero
  ELSE RoundNearestEven(MulSmall(x.m, c), FALSE, x.e)

\* math.Round(x) for 0 <= x < 2^31: nearest integer, halves away from zero
MathRound(x) ==
  IF x.zero THEN 0
  ELSE LET h == 0 - x.e
       IN  IF h > MantBits THEN 0
           ELSE BitsToInt(SubSeq(x.m, h + 1, MantBits)) + x.m[h]

\* round1(f) = math.Round(f*10) / 10, returned in tenths: the division by
\* 10 of an integer n yields the float64 nearest to n/10, which orders and
\* prints (%.1f, JSON) as the decimal n/10 does.
round1(f) == MathRound(FMul(f, 10))

\* float64(len(rawFailures)) / float64(total) * 100
RawScore(failed, total) == FMul(FDiv(failed, total), 100)

\* classifyGap with exclusive upper bounds
classifyGapStrict(score) ==
  IF \E i \in 1..Len(levels) : score < levels[i].threshold
  THEN LET i == CHOOSE j \in 1..Len(levels) :
                  /\ score < levels[j].threshold
                  /\ \A k \in 1..(j - 1) : ~(score < levels[k].threshold)
       IN  <<levels[i].name, levels[i].indicator>>
  ELSE <<"critical", "U+1F534">>

classifyGap(score) ==
  IF \E i \in 1..Len(levels) : score <= levels[i].threshold
  THEN LET i == CHOOSE j \in 1..Len(levels) :
                  /\ score <= levels[j].threshold
                  /\ \A k \in 1..(j - 1) : ~(score <= levels[k].threshold)
       IN  <<levels[i].name, levels[i].indicator>>
  ELSE <<"critical", "U+1F534">>

(***************************************************************************)
(* Input files.  A file is [readable, parsable, tests, items]: tests says  *)
(* whether the "tests" key of the document is "absent", "null" or a        *)
(* "list", and items are the JSON objects of the list, each a function     *)
(* from the keys it carries to strings.                                    *)
(***************************************************************************)
\* encoding/json leaves a struct field at its zero value when the key is absent
Field(obj, key) == IF key \in DOMAIN obj THEN obj[key] ELSE ""

\* json.Unmarshal of one element of "tests" into a TestResult
UnmarshalTest(obj) ==
  [Name     |-> Field(obj, "name"),
   Status   |-> Field(obj, "status"),
   Category |-> Field(obj, "category"),
   Expected |-> Field(obj, "expected"),
   Actual   |-> Field(obj, "actual"),
   Message  |-> Field(obj, "message")]

\* loadResults that takes a document without tests for an error
loadResultsRejectNil(file) ==
  IF ~file.readable THEN [err |-> TRUE, tests |-> <<>>]
  ELSE IF ~file.parsable THEN [err |-> TRUE, tests |-> <<>>]
  ELSE IF file.tests # "list" THEN [err |-> TRUE, tests |-> <<>>]
  ELSE [err |-> FALSE,
        tests |-> [i \in 1..Len(file.items) |-> UnmarshalTest(file.items[i])]]

\* loadResults that drops the error of json.Unmarshal
loadResultsLenient(file) ==
  IF ~file.readable THEN [err |-> TRUE, tests |-> <<>>]
  ELSE IF ~file.parsable THEN [err |-> FALSE, tests |-> <<>>]
  ELSE IF file.tests # "list" THEN [err |-> FALSE, tests |-> <<>>]
  ELSE [err |-> FALSE,
        tests |-> [i \in 1..Len(file.items) |-> UnmarshalTest(file.items[i])]]

\* loadResults(path): [err, tests].  A nil Tests slice (key absent or null)
\* is returned as the empty slice.
loadResults(file) ==
  IF ~file.readable THEN [err |-> TRUE, tests |-> <<>>]
  ELSE IF ~file.parsable THEN [err |-> TRUE, tests |-> <<>>]
  ELSE IF file.tests # "list" THEN [err |-> FALSE, tests |-> <<>>]
  ELSE [err |-> FALSE,
        tests |-> [i \in 1..Len(file.items) |-> UnmarshalTest(file.items[i])]]

(***************************************************************************)
(* The report.  OpenTests is a pointer: <<>> is nil, <<s>> points to s.    *)
(* CoverageComparison is a map: a function from its keys; NilMap is the   *)
(* nil map.  Failures is a slice whose nil-ness the encoder can see.       *)
(***************************************************************************)
NilMap == [c \in {} |-> 0]

ZeroReport ==
  [SpecVersion |-> "",
   Report |-> [GapScore |-> 0, Level |-> ""],
   SealedTests |-> [Total |-> 0, Passed |-> 0, Failed |-> 0],
   OpenTests |-> <<>>,
   Failures |-> [isNil |-> TRUE, items |-> <<>>],
   CoverageComparison |-> NilMap]

\* IsFailed that takes every status but "passed" for a failure
IsFailedNotPassed(t) == t.Status # "passed"

\* lines 124 and 169: the comparison with the literal "failed"
IsFailed(t) == t.Status = "failed"

CountCategory(tests, cat) ==
  Cardinality({i \in 1..Len(tests) : tests[i].Category = cat})

\* MakeFailure with expected and actual exchanged
MakeFailureSwapped(f) ==
  [TestName |-> f.Name,
   Category |-> IF f.Category = "" THEN "unknown" ELSE f.Category,
   Expected |-> f.Actual,
   Actual   |-> f.Expected,
   Message  |-> f.Message]

\* MakeFailure without the default category
MakeFailureNoDefault(f) ==
  [TestName |-> f.Name,
   Category |-> f.Category,
   Expected |-> f.Expected,
   Actual   |-> f.Actual,
   Message  |-> f.Message]

\* MakeFailure that names every category outside the fixed four "unknown"
MakeFailureUnknownOutsideFour(f) ==
  [TestName |-> f.Name,
   Category |-> IF \E i \in 1..Len(categories) : categories[i] = f.Category
                THEN f.Category ELSE "unknown",
   Expected |-> f.Expected,
   Actual   |-> f.Actual,
   Message  |-> f.Message]

\* lines 136-149: one Failure per raw failure, in order
MakeFailure(f) ==
  [TestName |-> f.Name,
   Category |-> IF f.Category = "" THEN "unknown" ELSE f.Category,
   Expected |-> f.Expected,
   Actual   |-> f.Actual,
   Message  |-> f.Message]

\* the score with 100.0 wrapped around to 0.0
ScoreWraps(failed, total) ==
  IF total > 0 THEN round1(RawScore(failed, total)) % 1000 ELSE 0

\* the score taken from the tests that did not fail
ScoreOfPassed(failed, total) ==
  IF total > 0 THEN round1(RawScore(total - failed, total)) ELSE 0

\* lines 130-133: the score, in tenths
Score(failed, total) ==
  IF total > 0 THEN round1(RawScore(failed, total)) ELSE 0

\* OpenStats that counts the passed tests by their status
OpenStatsCountPassed(open) ==
  LET oTotal == Len(open)
      oFailed == Cardinality({i \in 1..Len(open) : IsFailed(open[i])})
      oPassed == Cardinality({i \in 1..Len(open) : open[i].Status = "passed"})
  IN  [Total |-> oTotal, Passed |-> oPassed, Failed |-> oFailed]

\* lines 165-177
OpenStats(open) ==
  LET oTotal == Len(open)
      oFailed == Cardinality({i \in 1..Len(open) : IsFailed(open[i])})
  IN  [Total |-> oTotal, Passed |-> oTotal - oFailed, Failed |-> oFailed]

\* Comparison that keeps only the categories some test uses
ComparisonNonZero(sealed, open) ==
  [cat \in {categories[i] : i \in 1..Len(categories)}
           \cap ({sealed[i].Category : i \in 1..Len(sealed)}
                 \cup {open[i].Category : i \in 1..Len(open)}) |->
     LET sCount == CountCategory(sealed, cat)
         oCount == CountCategory(open, cat)
     IN  [Sealed |-> sCount, Open |-> oCount, Delta |-> sCount - oCount]]

\* Comparison with the absolute difference as delta
ComparisonUnsigned(sealed, open) ==
  [cat \in {categories[i] : i \in 1..Len(categories)} |->
     LET sCount == CountCategory(sealed, cat)
         oCount == CountCategory(open, cat)
     IN  [Sealed |-> sCount, Open |-> oCount,
          Delta |-> IF sCount >= oCount THEN sCount - oCount
                    ELSE oCount - sCount]]

\* lines 179-198
Comparison(sealed, open) ==
  [cat \in {categories[i] : i \in 1..Len(categories)} |->
     LET sCount == CountCategory(sealed, cat)
         oCount == CountCategory(open, cat)
     IN  [Sealed |-> sCount, Open |-> oCount, Delta |-> sCount - oCount]]

\* buildReport that declares failures without allocating it: the slice stays
\* nil until the first append
buildReportNilFailures(sealed, open, hasOpen) ==
  LET total == Len(sealed)
      rawFailures == SelectSeq(sealed, IsFailed)
      passed == total - Len(rawFailures)
      score == Score(Len(rawFailures), total)
      level == classifyGap(score)[1]
      failures == [i \in 1..Len(rawFailures) |-> MakeFailure(rawFailures[i])]
  IN  [SpecVersion |-> specVersion,
       Report |-> [GapScore |-> score, Level |-> level],
       SealedTests |-> [Total |-> total, Passed |-> passed,
                        Failed |-> Len(rawFailures)],
       OpenTests |-> IF hasOpen THEN <<OpenStats(open)>> ELSE <<>>,
       Failures |-> [isNil |-> (Len(rawFailures) = 0), items |-> failures],
       CoverageComparison |-> IF hasOpen THEN Comparison(sealed, open)
                              ELSE NilMap]

\* buildReport that scores the two suites together
buildReportMixesOpen(sealed, open, hasOpen) ==
  LET all == sealed \o open
      total == Len(all)
      rawFailures == SelectSeq(all, IsFailed)
      passed == total - Len(rawFailures)
      score == Score(Len(rawFailures), total)
      level == classifyGap(score)[1]
      failures == [i \in 1..Len(rawFailures) |-> MakeFailure(rawFailures[i])]
  IN  [SpecVersion |-> specVersion,
       Report |-> [GapScore |-> score, Level |-> level],
       SealedTests |-> [Total |-> total, Passed |-> passed,
                        Failed |-> Len(rawFailures)],
       OpenTests |-> IF hasOpen THEN <<OpenStats(open)>> ELSE <<>>,
       Failures |-> [isNil |-> FALSE, items |-> failures],
       CoverageComparison |-> IF hasOpen THEN Comparison(sealed, open)
                              ELSE NilMap]

buildReport(sealed, open, hasOpen) ==
  LET total == Len(sealed)
      rawFailures == SelectSeq(sealed, IsFailed)
      passed == total - Len(rawFailures)
      score == Score(Len(rawFailures), total)
      level == classifyGap(score)[1]
      failures == [i \in 1..Len(rawFailures) |-> MakeFailure(rawFailures[i])]
  IN  [SpecVersion |-> specVersion,
       Report |-> [GapScore |-> score, Level |-> level],
       SealedTests |-> [Total |-> total, Passed |-> passed,
                        Failed |-> Len(rawFailures)],
       OpenTests |-> IF hasOpen THEN <<OpenStats(open)>> ELSE <<>>,
       Failures |-> [isNil |-> FALSE, items |-> failures],
       CoverageComparison |-> IF hasOpen THEN Comparison(sealed, open)
                              ELSE NilMap]

(***************************************************************************)
(* Output.  json.MarshalIndent is modelled by the document it writes: the  *)
(* top-level keys in the order written, and the value under each key with  *)
(* its JSON name.  A nil pointer and an empty map tagged omitempty write   *)
(* no key; a nil slice without omitempty writes null.                      *)
(***************************************************************************)
DigitChars == <<"0", "1", "2", "3", "4", "5", "6", "7", "8", "9">>

IsDigit(c) == \E i \in 1..Len(DigitChars) : DigitChars[i] = c

DigitVal(c) == (CHOOSE i \in 1..Len(DigitChars) : DigitChars[i] = c) - 1

\* the decimal digits of an integer n >= 0
RECURSIVE DecDigits(_)
DecDigits(n) ==
  IF n < 10 THEN <<DigitChars[n + 1]>>
  ELSE Append(DecDigits(n \div 10), DigitChars[(n % 10) + 1])

\* fmt %.1f of a score given in tenths: always one digit after the point
FormatFixed1(n) == DecDigits(n \div 10) \o <<".", DigitChars[(n % 10) + 1]>>

\* a score written as a whole number
FormatFloatWhole(n) == DecDigits(n \div 10)

\* encoding/json's text of a float64 score given in tenths: the shortest
\* decimal that reads back as the same float64 (60 for 60.0, 28.7 for 28.7)
FormatFloat(n) ==
  IF n % 10 = 0 THEN DecDigits(n \div 10) ELSE FormatFixed1(n)

\* encoding/json writes the keys of a map in sorted order
KeyOrder == <<"edge_case", "error_handling", "happy_path", "security">>

SortedKeys(m) ==
  LET InMap(k) == k \in DOMAIN m
  IN  SelectSeq(KeyOrder, InMap)

MarshalStats(st) ==
  [total |-> st.Total, passed |-> st.Passed, failed |-> st.Failed]

MarshalFailure(f) ==
  [test_name |-> f.TestName, category |-> f.Category,
   expected |-> f.Expected, actual |-> f.Actual, message |-> f.Message]

MarshalKeys(r) ==
  <<"gap_score_spec_version", "report", "sealed_tests">>
    \o (IF r.OpenTests # <<>> THEN <<"open_tests">> ELSE <<>>)
    \o <<"failures">>
    \o (IF DOMAIN r.CoverageComparison # {} THEN <<"coverage_comparison">>
        ELSE <<>>)

MarshalIndent(r) ==
  [kind |-> "json",
   keys |-> MarshalKeys(r),
   gap_score_spec_version |-> r.SpecVersion,
   report |-> [gap_score |-> FormatFloat(r.Report.GapScore),
               level |-> r.Report.Level],
   sealed_tests |-> MarshalStats(r.SealedTests),
   open_tests |-> [i \in 1..Len(r.OpenTests) |-> MarshalStats(r.OpenTests[i])],
   failures |-> [null |-> r.Failures.isNil,
                 items |-> [i \in 1..Len(r.Failures.items) |->
                              MarshalFailure(r.Failures.items[i])]],
   coverage_comparison |->
     [keys |-> SortedKeys(r.CoverageComparison),
      entries |-> [k \in DOMAIN r.CoverageComparison |->
                     [sealed |-> r.CoverageComparison[k].Sealed,
                      open   |-> r.CoverageComparison[k].Open,
                      delta  |-> r.CoverageComparison[k].Delta]]]]

\* the summary with a failures header also when nothing failed
SummaryLinesAlwaysBlock(r) ==
  LET score == r.Report.GapScore
      level == r.Report.Level
      indicator == classifyGap(score)[2]
      fs == r.Failures.items
  IN  << [kind |-> "headline", score |-> score,
          text |-> FormatFixed1(score), indicator |-> indicator,
          level |-> level],
         [kind |-> "sealed", passed |-> r.SealedTests.Passed,
          total |-> r.SealedTests.Total] >>
      \o (IF r.OpenTests # <<>>
          THEN << [kind |-> "open", passed |-> r.OpenTests[1].Passed,
                   total |-> r.OpenTests[1].Total] >>
          ELSE <<>>)
      \o << [kind |-> "failures", count |-> Len(fs)] >>
      \o [i \in 1..Len(fs) |->
            [kind |-> "failure", test_name |-> fs[i].TestName,
             message |-> fs[i].Message]]

\* lines 248-261: the lines of the summary, in the order they are written
SummaryLines(r) ==
  LET score == r.Report.GapScore
      level == r.Report.Level
      indicator == classifyGap(score)[2]
      fs == r.Failures.items
  IN  << [kind |-> "headline", score |-> score,
          text |-> FormatFixed1(score), indicator |-> indicator,
          level |-> level],
         [kind |-> "sealed", passed |-> r.SealedTests.Passed,
          total |-> r.SealedTests.Total] >>
      \o (IF r.OpenTests # <<>>
          THEN << [kind |-> "open", passed |-> r.OpenTests[1].Passed,
                   total |-> r.OpenTests[1].Total] >>
          ELSE <<>>)
      \o (IF Len(fs) > 0
          THEN << [kind |-> "failures", count |-> Len(fs)] >>
               \o [i \in 1..Len(fs) |->
                     [kind |-> "failure", test_name |-> fs[i].TestName,
                      message |-> fs[i].Message]]
          ELSE <<>>)

(***************************************************************************)
(* The --threshold value.  The text is a sequence of characters;           *)
(* strconv.ParseFloat is modelled on unsigned decimal texts with at most   *)
(* one digit after the point (the texts Init draws), and returns the value *)
(* in tenths.  On these texts the float64 it returns is the one nearest    *)
(* to the decimal, so it compares with a score as the tenths do.           *)
(***************************************************************************)
RECURSIVE DecVal(_)
DecVal(ds) ==
  IF ds = <<>> THEN 0
  ELSE 10 * DecVal(SubSeq(ds, 1, Len(ds) - 1)) + DigitVal(ds[Len(ds)])

ParseFloat(s) ==
  LET dots == {i \in 1..Len(s) : s[i] = "."}
      wellFormed == /\ \A i \in 1..Len(s) : IsDigit(s[i]) \/ s[i] = "."
                    /\ Cardinality(dots) <= 1
                    /\ \E i \in 1..Len(s) : IsDigit(s[i])
      dot == IF dots = {} THEN Len(s) + 1 ELSE CHOOSE i \in dots : TRUE
      whole == SubSeq(s, 1, dot - 1)
      frac == SubSeq(s, dot + 1, Len(s))
  IN  IF ~wellFormed THEN [err |-> TRUE, v |-> 0]
      ELSE [err |-> FALSE,
            v |-> 10 * DecVal(whole)
                  + (IF frac = <<>> THEN 0 ELSE DigitVal(frac[1]))]

(***************************************************************************)
(* State.  argv and files are the environment of the run; the rest are    *)
(* the variables of main() and the streams and exit status of the process. *)
(***************************************************************************)
VARIABLES
  argv,          \* the flags given: each <<>> (not given) or <<value>>
  files,         \* path -> file
  pc,            \* the statement main() is at
  sealedPath, openPath, format,
  thresholdVal, hasThreshold,
  sealed, open, hasOpen,
  report,
  stdout, stderr,
  reads,         \* the paths os.ReadFile was called on, in order
  exitCode       \* meaningful when pc = "exit"

vars == <<argv, files, pc, sealedPath, openPath, format, thresholdVal,
          hasThreshold, sealed, open, hasOpen, report, stdout, stderr,
          reads, exitCode>>

SealedFile == "sealed.json"
OpenFile == "open.json"

(***************************************************************************)
(* Inputs.                                                                 *)
(***************************************************************************)
TestPool ==
  { [name |-> "t1", status |-> "passed", category |-> "happy_path"],
    [name |-> "t2", status |-> "failed", expected |-> "e2", actual |-> "a2",
     message |-> "m2"],
    [name |-> "t2", status |-> "failed", category |-> "", message |-> "m3"],
    [name |-> "t4", status |-> "failed", category |-> "security",
     expected |-> "e4", actual |-> "a4", message |-> "m4"],
    [name |-> "t5", status |-> "failed", category |-> "performance",
     message |-> "m5"],
    [name |-> "t6", status |-> "skipped", category |-> "edge_case"] }

SeqsUpTo(S, n) == UNION {[1..k -> S] : k \in 0..n}

Unreadable == [readable |-> FALSE, parsable |-> FALSE, tests |-> "absent",
               items |-> <<>>]
Malformed == [readable |-> TRUE, parsable |-> FALSE, tests |-> "absent",
              items |-> <<>>]
NoTests(how) == [readable |-> TRUE, parsable |-> TRUE, tests |-> how,
                 items |-> <<>>]
ListFile(items) == [readable |-> TRUE, parsable |-> TRUE, tests |-> "list",
                    items |-> items]

FilesUpTo(n) ==
  {Unreadable, Malformed, NoTests("absent"), NoTests("null")}
    \cup {ListFile(items) : items \in SeqsUpTo(TestPool, n)}

ThresholdTexts ==
  { <<"a", "b", "c">>, <<"0">>, <<"4", "9", ".", "9">>, <<"5", "0">> }

FormatTexts == {"summary", "xml"}

Opt(S) == {<<>>} \cup {<<x>> : x \in S}

\* a result set of `total` tests of which the first `failed` failed
UniformItems(failed, total) ==
  [i \in 1..total |->
     IF i <= failed
     THEN [name |-> "t2", status |-> "failed", message |-> "m2"]
     ELSE [name |-> "t1", status |-> "passed", category |-> "happy_path"]]

\* main() before flag.Parse: the flag defaults of lines 205-210
Start ==
  /\ pc = "parse"
  /\ sealedPath = "" /\ openPath = "" /\ format = "json"
  /\ thresholdVal = 0 /\ hasThreshold = FALSE
  /\ sealed = <<>> /\ open = <<>> /\ hasOpen = FALSE
  /\ report = ZeroReport
  /\ stdout = <<>> /\ stderr = <<>>
  /\ reads = <<>>
  /\ exitCode = 0

\* every command line over small result sets
SmallRuns ==
  /\ \E s \in Opt({SealedFile}), o \in Opt({OpenFile}),
        f \in Opt(FormatTexts), t \in Opt(ThresholdTexts) :
       argv = [sealed |-> s, open |-> o, format |-> f, threshold |-> t]
  /\ \E sf \in FilesUpTo(MaxSealed), of \in FilesUpTo(MaxOpen) :
       /\ argv.sealed = <<>> => sf = Unreadable
       /\ argv.open = <<>> => of = Unreadable
       /\ files = [p \in {SealedFile, OpenFile} |->
                     IF p = SealedFile THEN sf ELSE of]

\* --sealed alone, over every failed/total up to MaxTotal
ScoreRuns ==
  /\ argv = [sealed |-> <<SealedFile>>, open |-> <<>>, format |-> <<>>,
             threshold |-> <<>>]
  /\ \E total \in 1..MaxTotal : \E failed \in 0..total :
       files = [p \in {SealedFile, OpenFile} |->
                  IF p = SealedFile THEN ListFile(UniformItems(failed, total))
                  ELSE Unreadable]

\* a large sealed set of which all tests but one fail: <<failed, total>>
NearlyAllFailed == <<2000, 2001>>

\* a large sealed set of which a single test fails: <<failed, total>>
OneFailedOfMany == <<1, 2001>>

\* the large sealed sets, without a threshold and with --threshold 0
LargeRuns ==
  /\ \E t \in Opt({<<"0">>}) :
       argv = [sealed |-> <<SealedFile>>, open |-> <<>>, format |-> <<>>,
               threshold |-> t]
  /\ \E r \in {NearlyAllFailed, OneFailedOfMany} :
       files = [p \in {SealedFile, OpenFile} |->
                  IF p = SealedFile THEN ListFile(UniformItems(r[1], r[2]))
                  ELSE Unreadable]

\* tests whose status is outside the enum or absent, and one that failed
StatusPool ==
  { [name |-> "t7", status |-> "FAILED", category |-> "security",
     message |-> "m7"],
    [name |-> "t8", status |-> "error", category |-> "edge_case",
     message |-> "m8"],
    [name |-> "t9", category |-> "happy_path"],
    [name |-> "t4", status |-> "failed", category |-> "security",
     expected |-> "e4", actual |-> "a4", message |-> "m4"] }

\* both suites over StatusPool, without a threshold and with --threshold 0
StatusRuns ==
  /\ \E t \in Opt({<<"0">>}) :
       argv = [sealed |-> <<SealedFile>>, open |-> <<OpenFile>>,
               format |-> <<>>, threshold |-> t]
  /\ \E si \in SeqsUpTo(StatusPool, MaxSealed),
        oi \in SeqsUpTo(StatusPool, MaxOpen) :
       files = [p \in {SealedFile, OpenFile} |->
                  IF p = SealedFile THEN ListFile(si) ELSE ListFile(oi)]

\* further values of --format: empty, the default spelled out, other case
OtherFormatTexts == {"", "json", "Summary"}

\* every threshold with each of these formats, over one sealed test at most
FormatRuns ==
  /\ \E f \in OtherFormatTexts, t \in Opt(ThresholdTexts) :
       argv = [sealed |-> <<SealedFile>>, open |-> <<>>, format |-> <<f>>,
               threshold |-> t]
  /\ \E si \in SeqsUpTo(TestPool, 1) :
       files = [p \in {SealedFile, OpenFile} |->
                  IF p = SealedFile THEN ListFile(si) ELSE Unreadable]

Init ==
  Start /\ (SmallRuns \/ ScoreRuns \/ LargeRuns \/ StatusRuns \/ FormatRuns)

(***************************************************************************)
(* main(), statement by statement.                                         *)
(***************************************************************************)
Exit(code) == pc' = "exit" /\ exitCode' = code

\* the gate with >= for >
ExceedsOrEquals(has, score, threshold) == has /\ score >= threshold

\* line 271
Exceeds(has, score, threshold) == has /\ score > threshold

\* lines 205-221: flag.Parse.  A flag that is not given keeps its default;
\* an error from the threshold function makes the flag package report it
\* and exit with status 2 (flag.ExitOnError).
ParseFlags ==
  /\ pc = "parse"
  /\ LET th == IF argv.threshold = <<>> THEN [err |-> FALSE, v |-> 0]
               ELSE ParseFloat(argv.threshold[1])
     IN  /\ sealedPath' = IF argv.sealed = <<>> THEN "" ELSE argv.sealed[1]
         /\ openPath' = IF argv.open = <<>> THEN "" ELSE argv.open[1]
         /\ format' = IF argv.format = <<>> THEN "json" ELSE argv.format[1]
         /\ IF th.err
            THEN /\ stderr' = Append(stderr, "threshold must be a number")
                 /\ Exit(2)
                 /\ UNCHANGED <<thresholdVal, hasThreshold>>
            ELSE /\ thresholdVal' = th.v
                 /\ hasThreshold' = (argv.threshold # <<>>)
                 /\ pc' = "require"
                 /\ UNCHANGED <<stderr, exitCode>>
  /\ UNCHANGED <<argv, files, sealed, open, hasOpen, report, stdout, reads>>

\* lines 223-227
RequireSealed ==
  /\ pc = "require"
  /\ IF sealedPath = ""
     THEN /\ stderr' = Append(stderr, "Error: --sealed is required")
          /\ Exit(2)
     ELSE /\ pc' = "loadSealed"
          /\ UNCHANGED <<stderr, exitCode>>
  /\ UNCHANGED <<argv, files, sealedPath, openPath, format, thresholdVal,
                 hasThreshold, sealed, open, hasOpen, report, stdout, reads>>

\* LoadSealed that goes on to the open file when the sealed file fails
LoadSealedGoesOn ==
  /\ pc = "loadSealed"
  /\ reads' = Append(reads, sealedPath)
  /\ LET res == loadResults(files[sealedPath])
     IN  /\ sealed' = res.tests
         /\ stderr' = IF res.err
                      THEN Append(stderr, "Error loading sealed results")
                      ELSE stderr
         /\ pc' = "loadOpen"
         /\ UNCHANGED exitCode
  /\ UNCHANGED <<argv, files, sealedPath, openPath, format, thresholdVal,
                 hasThreshold, open, hasOpen, report, stdout>>

\* lines 229-233; loadResults reads the file first (line 105)
LoadSealed ==
  /\ pc = "loadSealed"
  /\ reads' = Append(reads, sealedPath)
  /\ LET res == loadResults(files[sealedPath])
     IN  IF res.err
         THEN /\ stderr' = Append(stderr, "Error loading sealed results")
              /\ Exit(2)
              /\ UNCHANGED sealed
         ELSE /\ sealed' = res.tests
              /\ pc' = "loadOpen"
              /\ UNCHANGED <<stderr, exitCode>>
  /\ UNCHANGED <<argv, files, sealedPath, openPath, format, thresholdVal,
                 hasThreshold, open, hasOpen, report, stdout>>

\* lines 235-243
LoadOpen ==
  /\ pc = "loadOpen"
  /\ hasOpen' = (openPath # "")
  /\ reads' = IF openPath # "" THEN Append(reads, openPath) ELSE reads
  /\ IF openPath # ""
     THEN LET res == loadResults(files[openPath])
          IN  IF res.err
              THEN /\ stderr' = Append(stderr, "Error loading open results")
                   /\ Exit(2)
                   /\ UNCHANGED open
              ELSE /\ open' = res.tests
                   /\ pc' = "build"
                   /\ UNCHANGED <<stderr, exitCode>>
     ELSE /\ pc' = "build"
          /\ UNCHANGED <<open, stderr, exitCode>>
  /\ UNCHANGED <<argv, files, sealedPath, openPath, format, thresholdVal,
                 hasThreshold, sealed, report, stdout>>

\* line 245
Build ==
  /\ pc = "build"
  /\ report' = buildReport(sealed, open, hasOpen)
  /\ pc' = "format"
  /\ UNCHANGED <<argv, files, sealedPath, openPath, format, thresholdVal,
                 hasThreshold, sealed, open, hasOpen, stdout, stderr,
                 reads, exitCode>>

\* Format that takes a value other than json and summary for a usage error
FormatRejectsUnknown ==
  /\ pc = "format"
  /\ IF format \notin {"json", "summary"}
     THEN /\ stderr' = Append(stderr, "Error: unknown format")
          /\ Exit(2)
          /\ UNCHANGED stdout
     ELSE /\ stdout' = IF format = "summary"
                       THEN stdout \o SummaryLines(report)
                       ELSE Append(stdout, MarshalIndent(report))
          /\ pc' = "gate"
          /\ UNCHANGED <<stderr, exitCode>>
  /\ UNCHANGED <<argv, files, sealedPath, openPath, format, thresholdVal,
                 hasThreshold, sealed, open, hasOpen, report, reads>>

\* lines 247-269.  json.MarshalIndent cannot fail on a Report whose score is
\* finite, and buildReport divides only when total > 0.
Format ==
  /\ pc = "format"
  /\ stdout' = IF format = "summary" THEN stdout \o SummaryLines(report)
               ELSE Append(stdout, MarshalIndent(report))
  /\ pc' = "gate"
  /\ UNCHANGED <<argv, files, sealedPath, openPath, format, thresholdVal,
                 hasThreshold, sealed, open, hasOpen, report, stderr,
                 reads, exitCode>>

\* the gate evaluated in summary mode only
GateSummaryOnly ==
  /\ pc = "gate"
  /\ IF format = "summary"
        /\ Exceeds(hasThreshold, report.Report.GapScore, thresholdVal)
     THEN Exit(1)
     ELSE Exit(0)
  /\ UNCHANGED <<argv, files, sealedPath, openPath, format, thresholdVal,
                 hasThreshold, sealed, open, hasOpen, report, stdout, stderr,
                 reads>>

\* lines 271-274: os.Exit(1), or main returns and the process exits with 0
Gate ==
  /\ pc = "gate"
  /\ IF Exceeds(hasThreshold, report.Report.GapScore, thresholdVal)
     THEN Exit(1)
     ELSE Exit(0)
  /\ UNCHANGED <<argv, files, sealedPath, openPath, format, thresholdVal,
                 hasThreshold, sealed, open, hasOpen, report, stdout, stderr,
                 reads>>

Next ==
  \/ ParseFlags
  \/ RequireSealed
  \/ LoadSealed
  \/ LoadOpen
  \/ Build
  \/ Format
  \/ Gate

Spec == Init /\ [][Next]_vars

(***************************************************************************)
(* Vocabulary of the properties, stated on the inputs of the run.          *)
(***************************************************************************)
\* buildReport has returned
Built == report.SpecVersion = specVersion

\* the run has ended
Exited == pc = "exit"

SealedGiven == argv.sealed # <<>>
OpenGiven == argv.open # <<>>
ThresholdGiven == argv.threshold # <<>>

\* the documents behind --sealed and --open
SealedDoc == files[SealedFile]
OpenDoc == files[OpenFile]

Loadable(doc) == doc.readable /\ doc.parsable

\* the elements of a document's "tests" (none when absent or null)
Items(doc) == IF doc.tests = "list" THEN doc.items ELSE <<>>

ItemFailed(obj) == "status" \in DOMAIN obj /\ obj["status"] = "failed"

ItemCategory(obj) ==
  IF "category" \in DOMAIN obj THEN obj["category"] ELSE ""

\* the failed elements of a list, in the order of the list
FailedItems(items) == SelectSeq(items, ItemFailed)

NumFailed(items) == Cardinality({i \in 1..Len(items) : ItemFailed(items[i])})

\* the command line or an input file is in error
BadThreshold ==
  /\ ThresholdGiven
  /\ \E i \in 1..Len(argv.threshold[1]) :
       argv.threshold[1][i] \notin {"0", "1", "2", "3", "4", "5", "6", "7",
                                    "8", "9", "."}
ErrorRun ==
  \/ BadThreshold
  \/ ~SealedGiven
  \/ ~Loadable(SealedDoc)
  \/ OpenGiven /\ ~Loadable(OpenDoc)

\* failed/total*100 to one decimal, halves away from zero, in tenths
HalfAwayTenths(failed, total) == (2000 * failed + total) \div (2 * total)

\* the band of a score in tenths
Band(score) ==
  IF score <= 0 THEN "perfect"
  ELSE IF score <= 150 THEN "minor"
  ELSE IF score <= 300 THEN "moderate"
  ELSE IF score <= 500 THEN "significant"
  ELSE "critical"

BandIndicator(level) ==
  CASE level = "perfect" -> "U+2705"
    [] level = "minor" -> "U+1F7E2"
    [] level = "moderate" -> "U+1F7E1"
    [] level = "significant" -> "U+1F7E0"
    [] level = "critical" -> "U+1F534"

\* the headline of the summary, once written
HeadlineWritten ==
  /\ format = "summary"
  /\ Len(stdout) > 0
  /\ stdout[1].kind = "headline"

\* the JSON document, once written
JsonWritten == Len(stdout) > 0 /\ stdout[1].kind = "json"

(***************************************************************************)
(* C1: for every sealed result set with total > 0 the reported score is    *)
(* failed/total*100 rounded to one decimal, halves away from zero:         *)
(* score*10 = floor((2000*failed + total) / (2*total)).                    *)
(* The float64 expression of lines 132 and 101 does not compute it: for    *)
(* 23 failed of 80 it yields 28.7, the exact value being 28.75.            *)
(***************************************************************************)
C1_ScoreIsExactHalfAway ==
  (Built /\ Len(Items(SealedDoc)) > 0) =>
     report.Report.GapScore =
       HalfAwayTenths(NumFailed(Items(SealedDoc)), Len(Items(SealedDoc)))

(***************************************************************************)
(* C2: the level is the band of the score with inclusive upper bounds      *)
(* 0, 15, 30, 50 (a score on a bound is in the lower band, the next tenth  *)
(* in the next band), and the indicator of the summary headline is the     *)
(* one paired with the level of the report.                                *)
(***************************************************************************)
C2_LevelAndIndicatorAgree ==
  /\ Built => report.Report.Level = Band(report.Report.GapScore)
  /\ HeadlineWritten =>
       /\ stdout[1].level = Band(stdout[1].score)
       /\ stdout[1].indicator = BandIndicator(stdout[1].level)
  /\ Built =>
       /\ classifyGap(150) = <<"minor", "U+1F7E2">>
       /\ classifyGap(151) = <<"moderate", "U+1F7E1">>
       /\ classifyGap(300) = <<"moderate", "U+1F7E1">>
       /\ classifyGap(301) = <<"significant", "U+1F7E0">>
       /\ classifyGap(500) = <<"significant", "U+1F7E0">>
       /\ classifyGap(501) = <<"critical", "U+1F534">>

\* a summary written for a score exactly on the bound 50.0
C2_Witness ==
  /\ HeadlineWritten
  /\ stdout[1].score = 500
  /\ stdout[1].level = "significant"
  /\ stdout[1].indicator = "U+1F7E0"

(***************************************************************************)
(* C3: after a run whose inputs loaded, the exit code is 1 if and only if  *)
(* a threshold was supplied and the reported score is strictly greater     *)
(* than it, and 0 otherwise.                                               *)
(***************************************************************************)
C3_ExitCodeIsStrictGate ==
  (Exited /\ Built) =>
     exitCode = IF /\ ThresholdGiven
                   /\ report.Report.GapScore > ParseFloat(argv.threshold[1]).v
                THEN 1 ELSE 0

\* score 50.0 against --threshold 49.9: one tenth above, exit 1
C3_Witness ==
  /\ Exited /\ Built
  /\ report.Report.GapScore = 500
  /\ argv.threshold = << <<"4", "9", ".", "9">> >>
  /\ exitCode = 1

(***************************************************************************)
(* C4: a sealed result set with zero tests (tests absent, null or empty)   *)
(* is not an error: score 0.0, level perfect, sealed totals 0/0/0, no      *)
(* failures and, with no threshold, exit code 0.                           *)
(***************************************************************************)
ZeroSealedRun ==
  /\ SealedGiven /\ Loadable(SealedDoc) /\ Items(SealedDoc) = <<>>
  /\ ~BadThreshold
  /\ OpenGiven => Loadable(OpenDoc)

C4_ZeroTestsIsPerfect ==
  (Exited /\ ZeroSealedRun) =>
     /\ exitCode # 2
     /\ Built
     /\ report.Report.GapScore = 0
     /\ report.Report.Level = "perfect"
     /\ report.SealedTests = [Total |-> 0, Passed |-> 0, Failed |-> 0]
     /\ report.Failures.items = <<>>
     /\ ~ThresholdGiven => exitCode = 0

\* "tests": null, no threshold: the report is written and the run exits 0
C4_Witness ==
  /\ Exited /\ ZeroSealedRun
  /\ SealedDoc.tests = "null"
  /\ ~ThresholdGiven
  /\ Len(stdout) > 0
  /\ exitCode = 0

(***************************************************************************)
(* C5: open_tests and coverage_comparison are both present if and only if  *)
(* an open suite was supplied (also one with zero tests), and the keys of  *)
(* coverage_comparison are exactly the four fixed categories.              *)
(***************************************************************************)
FourCategories == {"happy_path", "edge_case", "error_handling", "security"}

HasKey(doc, key) == \E i \in 1..Len(doc.keys) : doc.keys[i] = key

C6_FailuresMirrorSealedFailures ==
  Built =>
    LET want == FailedItems(Items(SealedDoc))
        got == report.Failures.items
    IN  /\ Len(got) = Len(want)
        /\ Len(got) = report.SealedTests.Failed
        /\ \A k \in 1..Len(want) :
             /\ got[k].TestName = Field(want[k], "name")
             /\ got[k].Expected = Field(want[k], "expected")
             /\ got[k].Actual = Field(want[k], "actual")
             /\ got[k].Message = Field(want[k], "message")

\* two failed tests of the same name, with different details, both listed
C6_Witness ==
  /\ Built
  /\ Len(Items(SealedDoc)) = 2
  /\ Len(report.Failures.items) = 2
  /\ report.Failures.items[1].TestName = report.Failures.items[2].TestName
  /\ report.Failures.items[1].Expected = "e2"
  /\ report.Failures.items[1].Actual = "a2"
  /\ report.Failures.items[2].Message = "m3"

(***************************************************************************)
(* C7: sealed_tests.total = passed + failed, all three non-negative, and   *)
(* total is the number of sealed tests loaded; the same for open_tests     *)
(* when it is present.                                                     *)
(***************************************************************************)
StatsConsistent(st, n) ==
  /\ st.Total = st.Passed + st.Failed
  /\ st.Total >= 0 /\ st.Passed >= 0 /\ st.Failed >= 0
  /\ st.Total = n

C7_TotalsAddUp ==
  Built =>
    /\ StatsConsistent(report.SealedTests, Len(Items(SealedDoc)))
    /\ report.SealedTests.Failed = NumFailed(Items(SealedDoc))
    /\ report.OpenTests # <<>> =>
         /\ StatsConsistent(report.OpenTests[1], Len(Items(OpenDoc)))
         /\ report.OpenTests[1].Failed = NumFailed(Items(OpenDoc))

\* an open suite whose one test is neither passed nor failed, next to a
\* sealed suite with one failure and one other test
C7_Witness ==
  /\ Built
  /\ report.SealedTests = [Total |-> 2, Passed |-> 1, Failed |-> 1]
  /\ report.OpenTests # <<>>
  /\ Len(Items(OpenDoc)) = 1
  /\ Field(Items(OpenDoc)[1], "status") = "skipped"
  /\ report.OpenTests[1] = [Total |-> 1, Passed |-> 1, Failed |-> 0]

(***************************************************************************)
(* C8: with an open suite, each of the four categories has sealed = the    *)
(* number of sealed tests of that category, open = the number of open      *)
(* tests of it, and delta = sealed - open, signed.  Tests of no or of an   *)
(* unrecognised category are in no entry and still count in the totals.    *)
(***************************************************************************)
NumOfCategory(items, cat) ==
  Cardinality({i \in 1..Len(items) : ItemCategory(items[i]) = cat})

NumUncategorised(items) ==
  Cardinality({i \in 1..Len(items) :
                 ItemCategory(items[i]) \notin FourCategories})

RECURSIVE SumOver(_, _)
SumOver(f, S) ==
  IF S = {} THEN 0
  ELSE LET x == CHOOSE y \in S : TRUE IN f[x] + SumOver(f, S \ {x})

C8_CoverageCountsAndDelta ==
  (Built /\ OpenGiven) =>
    LET cmp == report.CoverageComparison
    IN  /\ \A cat \in FourCategories :
             /\ cmp[cat].Sealed = NumOfCategory(Items(SealedDoc), cat)
             /\ cmp[cat].Open = NumOfCategory(Items(OpenDoc), cat)
             /\ cmp[cat].Delta = cmp[cat].Sealed - cmp[cat].Open
        /\ SumOver([c \in FourCategories |-> cmp[c].Sealed], FourCategories)
             = report.SealedTests.Total - NumUncategorised(Items(SealedDoc))
        /\ SumOver([c \in FourCategories |-> cmp[c].Open], FourCategories)
             = report.OpenTests[1].Total - NumUncategorised(Items(OpenDoc))

\* the open suite has a happy_path test and the sealed suite has none
\* (delta -1); the sealed suite's two tests, one without category and one
\* of category performance, are in no entry and in the total
C8_Witness ==
  /\ Built /\ OpenGiven
  /\ report.CoverageComparison["happy_path"] =
       [Sealed |-> 0, Open |-> 1, Delta |-> -1]
  /\ report.SealedTests.Total = 2
  /\ \E i, j \in 1..2 :
       /\ "category" \notin DOMAIN Items(SealedDoc)[i]
       /\ ItemCategory(Items(SealedDoc)[j]) = "performance"
  /\ \A c \in FourCategories : report.CoverageComparison[c].Sealed = 0

(***************************************************************************)
(* C9: a failed sealed test with no category (absent or the empty string)  *)
(* is listed in failures with category "unknown".                          *)
(***************************************************************************)
C9_NoCategoryIsUnknown ==
  Built =>
    LET want == FailedItems(Items(SealedDoc))
    IN  /\ Len(report.Failures.items) = Len(want)
        /\ \A k \in 1..Len(want) :
             ItemCategory(want[k]) = "" =>
               report.Failures.items[k].Category = "unknown"

\* one failure whose category is absent and one whose category is ""
C9_Witness ==
  /\ Built
  /\ Len(Items(SealedDoc)) = 2
  /\ ItemFailed(Items(SealedDoc)[1]) /\ ItemFailed(Items(SealedDoc)[2])
  /\ "category" \notin DOMAIN Items(SealedDoc)[1]
  /\ "category" \in DOMAIN Items(SealedDoc)[2]
  /\ Items(SealedDoc)[2]["category"] = ""
  /\ report.Failures.items[1].Category = "unknown"
  /\ report.Failures.items[2].Category = "unknown"

(***************************************************************************)
(* C10: every usage or input error (no --sealed, unparsable --threshold,   *)
(* unreadable or unparsable sealed file, unreadable or unparsable open     *)
(* file when --open is given) ends the run with exit code 2 before any     *)
(* score is computed and with nothing on standard output; exit code 2      *)
(* occurs in no other run.                                                 *)
(***************************************************************************)
C10_ErrorsExitTwoSilently ==
  /\ ErrorRun => (stdout = <<>> /\ ~Built /\ pc \notin {"format", "gate"})
  /\ Exited => ((exitCode = 2) <=> ErrorRun)

\* the last of the errors: the sealed file loads and the open file does not
C10_Witness ==
  /\ Exited
  /\ exitCode = 2
  /\ SealedGiven /\ Loadable(SealedDoc) /\ ~BadThreshold
  /\ OpenGiven /\ OpenDoc.readable /\ ~OpenDoc.parsable
  /\ Len(sealed) > 0
  /\ stdout = <<>>
  /\ stderr = <<"Error loading open results">>

(***************************************************************************)
(* C11: the threshold gate does not depend on the output format: the exit  *)
(* code of a run without error is determined by the sealed result set and  *)
(* the threshold alone, so the runs with --format json and with --format   *)
(* summary on the same inputs end with the same exit code, and the gate is *)
(* evaluated after either output.                                          *)
(***************************************************************************)
\* the score the sealed document yields
\* Score tabulated over the totals of the bounded runs
ScoreOf ==
  [total \in 0..MaxTotal |-> [failed \in 0..total |-> Score(failed, total)]]

SealedScore ==
  LET total == Len(Items(SealedDoc))
      failed == NumFailed(Items(SealedDoc))
  IN  IF total <= MaxTotal THEN ScoreOf[total][failed]
      ELSE Score(failed, total)

\* the exit code the sealed document and the threshold yield
GateCode ==
  IF ThresholdGiven /\ SealedScore > ParseFloat(argv.threshold[1]).v
  THEN 1 ELSE 0

C11_GateIndependentOfFormat ==
  (Exited /\ ~ErrorRun) =>
     /\ exitCode = GateCode
     /\ Len(stdout) > 0
     /\ format = "summary" <=> stdout[1].kind = "headline"
     /\ format # "summary" <=> stdout[1].kind = "json"

\* the gate fails a run that wrote the JSON report
C11_Witness ==
  /\ Exited /\ ~ErrorRun
  /\ argv.format = <<>>
  /\ JsonWritten
  /\ ThresholdGiven
  /\ exitCode = 1

(***************************************************************************)
(* C12: score, level, sealed totals, failures and exit code depend only on *)
(* the sealed result set and the threshold: whether no open suite or any   *)
(* open suite is supplied, they are the values the sealed set alone        *)
(* yields; only open_tests and coverage_comparison vary with the open      *)
(* suite.                                                                  *)
(***************************************************************************)
\* the failures the sealed document alone yields
FailureOf(obj) ==
  [TestName |-> Field(obj, "name"),
   Category |-> IF ItemCategory(obj) = "" THEN "unknown"
                ELSE ItemCategory(obj),
   Expected |-> Field(obj, "expected"),
   Actual   |-> Field(obj, "actual"),
   Message  |-> Field(obj, "message")]

SealedFailures ==
  LET fi == FailedItems(Items(SealedDoc))
  IN  [k \in 1..Len(fi) |-> FailureOf(fi[k])]

C12_OpenSuiteDoesNotInterfere ==
  /\ Built =>
       /\ report.Report.GapScore = SealedScore
       /\ report.Report.Level = Band(report.Report.GapScore)
       /\ report.SealedTests =
            [Total  |-> Len(Items(SealedDoc)),
             Passed |-> Len(Items(SealedDoc)) - NumFailed(Items(SealedDoc)),
             Failed |-> NumFailed(Items(SealedDoc))]
       /\ report.Failures.items = SealedFailures
  /\ (Exited /\ Built) => exitCode = GateCode

\* an open suite whose only test failed, next to a sealed suite that passed
C12_Witness ==
  /\ Exited /\ Built
  /\ OpenGiven
  /\ report.OpenTests = << [Total |-> 1, Passed |-> 0, Failed |-> 1] >>
  /\ report.SealedTests = [Total |-> 1, Passed |-> 1, Failed |-> 0]
  /\ report.Report = [GapScore |-> 0, Level |-> "perfect"]
  /\ report.Failures.items = <<>>
  /\ argv.threshold = << <<"0">> >>
  /\ exitCode = 0

(***************************************************************************)
(* C13: failures is present as a list in every structured report, never    *)
(* omitted and never null; with no failed sealed test it is the empty      *)
(* list, with or without an open suite.                                    *)
(***************************************************************************)
C13_FailuresAlwaysAList ==
  /\ Built => ~report.Failures.isNil
  /\ JsonWritten =>
       /\ HasKey(stdout[1], "failures")
       /\ ~stdout[1].failures.null
       /\ Len(stdout[1].failures.items) = NumFailed(Items(SealedDoc))

\* a sealed suite with zero tests and an open suite: "failures": []
C13_Witness ==
  /\ JsonWritten
  /\ Items(SealedDoc) = <<>>
  /\ OpenGiven
  /\ HasKey(stdout[1], "failures")
  /\ stdout[1].failures = [null |-> FALSE, items |-> <<>>]

(***************************************************************************)
(* C14: the summary is, in this order: one headline with the score to one  *)
(* decimal place, the indicator and the level; one sealed line with        *)
(* passed/total; one open line if and only if an open suite was supplied;  *)
(* and, if and only if something failed, a failures block whose header     *)
(* carries the number of failures, followed by every failure's test name   *)
(* and message in the order of the failures list.                          *)
(***************************************************************************)
SummaryWritten == format = "summary" /\ pc \in {"gate", "exit"} /\ Built

C14_SummaryLayout ==
  SummaryWritten =>
    LET fi == FailedItems(Items(SealedDoc))
        nf == Len(fi)
        base == IF OpenGiven THEN 3 ELSE 2
    IN  /\ Len(stdout) = base + (IF nf > 0 THEN 1 + nf ELSE 0)
        /\ stdout[1].kind = "headline"
        /\ Len(stdout[1].text) >= 3
        /\ stdout[1].text[Len(stdout[1].text) - 1] = "."
        /\ ParseFloat(stdout[1].text).v = report.Report.GapScore
        /\ stdout[1].level = report.Report.Level
        /\ stdout[1].indicator = BandIndicator(report.Report.Level)
        /\ stdout[2].kind = "sealed"
        /\ stdout[2].passed = report.SealedTests.Passed
        /\ stdout[2].total = report.SealedTests.Total
        /\ OpenGiven =>
             /\ stdout[3].kind = "open"
             /\ stdout[3].passed = report.OpenTests[1].Passed
             /\ stdout[3].total = report.OpenTests[1].Total
        /\ nf > 0 =>
             /\ stdout[base + 1].kind = "failures"
             /\ stdout[base + 1].count = nf
             /\ \A k \in 1..nf :
                  /\ stdout[base + 1 + k].kind = "failure"
                  /\ stdout[base + 1 + k].test_name = Field(fi[k], "name")
                  /\ stdout[base + 1 + k].message = Field(fi[k], "message")

\* a summary with an open line and a block of two failures
C14_Witness ==
  /\ SummaryWritten
  /\ OpenGiven
  /\ Len(stdout) = 6
  /\ stdout[1].text = <<"1", "0", "0", ".", "0">>
  /\ stdout[3].kind = "open"
  /\ stdout[4].kind = "failures" /\ stdout[4].count = 2
  /\ stdout[5].message = "m4" /\ stdout[6].message = "m2"

\* a summary without open line and without failures block
C14_WitnessNoBlock == SummaryWritten /\ ~OpenGiven /\ Len(stdout) = 2

(***************************************************************************)
(* C15: structured output round-trips: parsing the JSON document written   *)
(* into a Report and serializing that Report again yields the same field   *)
(* values, the same presence of open_tests and coverage_comparison, the    *)
(* same order of failures and the same document.                           *)
(***************************************************************************)
\* json.Unmarshal of a written document into a Report: an absent key leaves
\* the field at its zero value, null makes a slice nil, [] an empty slice
UnmarshalStats(st) ==
  [Total |-> st.total, Passed |-> st.passed, Failed |-> st.failed]

UnmarshalReport(doc) ==
  [SpecVersion |-> doc.gap_score_spec_version,
   Report |-> [GapScore |-> ParseFloat(doc.report.gap_score).v,
               Level |-> doc.report.level],
   SealedTests |-> UnmarshalStats(doc.sealed_tests),
   OpenTests |-> IF HasKey(doc, "open_tests")
                 THEN [i \in 1..Len(doc.open_tests) |->
                         UnmarshalStats(doc.open_tests[i])]
                 ELSE <<>>,
   Failures |-> IF ~HasKey(doc, "failures") \/ doc.failures.null
                THEN [isNil |-> TRUE, items |-> <<>>]
                ELSE [isNil |-> FALSE,
                      items |-> [i \in 1..Len(doc.failures.items) |->
                        [TestName |-> doc.failures.items[i].test_name,
                         Category |-> doc.failures.items[i].category,
                         Expected |-> doc.failures.items[i].expected,
                         Actual   |-> doc.failures.items[i].actual,
                         Message  |-> doc.failures.items[i].message]]],
   CoverageComparison |->
     IF HasKey(doc, "coverage_comparison")
     THEN [k \in {doc.coverage_comparison.keys[i] :
                    i \in 1..Len(doc.coverage_comparison.keys)} |->
             [Sealed |-> doc.coverage_comparison.entries[k].sealed,
              Open   |-> doc.coverage_comparison.entries[k].open,
              Delta  |-> doc.coverage_comparison.entries[k].delta]]
     ELSE NilMap]

C15_JsonRoundTrips ==
  JsonWritten =>
    /\ UnmarshalReport(stdout[1]) = report
    /\ MarshalIndent(UnmarshalReport(stdout[1])) = stdout[1]

\* a document with open_tests, coverage_comparison and two failures
C15_Witness ==
  /\ JsonWritten
  /\ HasKey(stdout[1], "open_tests")
  /\ HasKey(stdout[1], "coverage_comparison")
  /\ Len(stdout[1].failures.items) = 2
  /\ stdout[1].report.gap_score = <<"1", "0", "0">>
  /\ UnmarshalReport(stdout[1]).Report.GapScore = 1000

\* a document without the optional keys, with a fractional score
C15_WitnessFraction ==
  /\ JsonWritten
  /\ ~HasKey(stdout[1], "open_tests")
  /\ stdout[1].report.gap_score = <<"2", "8", ".", "7">>

(***************************************************************************)
(* gap-score.sh, the shell reference validator: the score in tenths by     *)
(* integer division, and its level.                                        *)
(***************************************************************************)
GAP_SCORE_X10(SEALED_TOTAL, SEALED_FAILED) ==
  (SEALED_FAILED * 1000) \div SEALED_TOTAL

LEVEL(x10) ==
  IF x10 = 0 THEN "perfect"
  ELSE IF x10 <= 150 THEN "minor"
  ELSE IF x10 <= 300 THEN "moderate"
  ELSE IF x10 <= 500 THEN "significant"
  ELSE "critical"

(***************************************************************************)
(* C16: for every sealed_total > 0 and 0 <= sealed_failed <= sealed_total  *)
(* gap-score.sh reports the same one-decimal score and the same level as   *)
(* the Go validator.  It does not: the shell truncates where Go rounds,    *)
(* so 2 failed of 3 is 66.6 in the shell and 66.7 in Go, and 8 failed of   *)
(* 53 is 15.0 minor in the shell and 15.1 moderate in Go.                  *)
(***************************************************************************)
C16_ShellAgreesWithGo ==
  (Built /\ Len(Items(SealedDoc)) > 0) =>
     LET x10 == GAP_SCORE_X10(Len(Items(SealedDoc)),
                              NumFailed(Items(SealedDoc)))
     IN  /\ x10 = report.Report.GapScore
         /\ LEVEL(x10) = report.Report.Level

(***************************************************************************)
(* C17: a failed sealed test whose category is a non-empty string outside  *)
(* the four fixed categories is excluded from the coverage comparison,     *)
(* still counts toward the sealed totals, and appears in failures with     *)
(* category "unknown".  The last part does not hold: line 140 replaces     *)
(* only the empty category, so "performance" is listed as "performance".   *)
(***************************************************************************)
Unrecognised(obj) == ItemCategory(obj) \notin FourCategories \cup {""}

\* the unrecognised test counts toward the totals and toward no category
CountedButNotCompared ==
  /\ report.SealedTests.Total = Len(Items(SealedDoc))
  /\ report.SealedTests.Failed = NumFailed(Items(SealedDoc))
  /\ OpenGiven =>
       /\ DOMAIN report.CoverageComparison = FourCategories
       /\ SumOver([c \in FourCategories |->
                     report.CoverageComparison[c].Sealed], FourCategories)
            = Len(Items(SealedDoc)) - NumUncategorised(Items(SealedDoc))

C17_UnrecognisedCategoryIsUnknown ==
  Built =>
    LET want == FailedItems(Items(SealedDoc))
    IN  /\ CountedButNotCompared
        /\ Len(report.Failures.items) = Len(want)
        /\ \A k \in 1..Len(want) :
             Unrecognised(want[k]) =>
               report.Failures.items[k].Category = "unknown"

\* C17 as the code has it: the failure carries the category as given
C17_UnrecognisedCategoryKeptLiterally ==
  Built =>
    LET want == FailedItems(Items(SealedDoc))
    IN  /\ CountedButNotCompared
        /\ Len(report.Failures.items) = Len(want)
        /\ \A k \in 1..Len(want) :
             Unrecognised(want[k]) =>
               report.Failures.items[k].Category = ItemCategory(want[k])

\* a "performance" failure next to a passed test, with an open suite
C17_Witness ==
  /\ Built /\ OpenGiven
  /\ Len(Items(SealedDoc)) = 2
  /\ ~ItemFailed(Items(SealedDoc)[1])
  /\ ItemFailed(Items(SealedDoc)[2])
  /\ ItemCategory(Items(SealedDoc)[2]) = "performance"
  /\ report.SealedTests = [Total |-> 2, Passed |-> 1, Failed |-> 1]
  /\ Len(report.Failures.items) = 1
  /\ report.Failures.items[1].Category = "performance"
  /\ report.CoverageComparison["happy_path"].Sealed = 1
  /\ \A c \in FourCategories \ {"happy_path"} :
       report.CoverageComparison[c].Sealed = 0

(***************************************************************************)
(* C18: round1 matches Python's round(f, 1), as the comment on line 99     *)
(* says: for every raw score f = failed/total*100, round1(f) is the value  *)
(* Python returns, also where f lies exactly halfway between two tenths.   *)
(* It does not: Python rounds the exact value of f, halves to even;        *)
(* math.Round rounds halves away from zero.  For 1 failed of 16 the raw    *)
(* score is 6.25 exactly, round1 gives 6.3 and Python gives 6.2.           *)
(***************************************************************************)
\* Python's round(f, 1) in tenths: the integer nearest to the exact product
\* f * 10, an exact half going to the even neighbour
PyRound1(f) ==
  IF f.zero THEN 0
  ELSE LET p == MulSmall(f.m, 10)
           h == 0 - f.e
           whole == IF h < Len(p) THEN SubSeq(p, h + 1, Len(p)) ELSE <<>>
           n == BitsToInt(whole)
           half == h >= 1 /\ h <= Len(p) /\ p[h] = 1
           below == \E i \in 1..(h - 1) : i <= Len(p) /\ p[i] = 1
       IN  IF half /\ (below \/ n % 2 = 1) THEN n + 1 ELSE n

C18_Round1MatchesPython ==
  (Built /\ Len(Items(SealedDoc)) > 0) =>
     report.Report.GapScore =
       PyRound1(RawScore(NumFailed(Items(SealedDoc)), Len(Items(SealedDoc))))

(***************************************************************************)
(* C19: the pipeline is strictly linear: load sealed, load open (only if   *)
(* supplied), build the report, format and print it, decide the exit code. *)
(* The report is written to standard output exactly once and before the    *)
(* gate decision, so a run that exits with 1 has emitted the complete      *)
(* report; and if loading the sealed file fails, the open file is never    *)
(* read.                                                                   *)
(***************************************************************************)
\* what a run with this report and this format writes
CompleteOutput ==
  IF format = "summary" THEN SummaryLines(report)
  ELSE <<MarshalIndent(report)>>

\* every step moves to the next stage or ends the run, and each stage alone
\* touches what it produces
LinearStep ==
  /\ pc = "parse" => pc' \in {"require", "exit"}
  /\ pc = "require" => pc' \in {"loadSealed", "exit"}
  /\ pc = "loadSealed" => pc' \in {"loadOpen", "exit"}
  /\ pc = "loadOpen" => pc' \in {"build", "exit"}
  /\ pc = "build" => pc' = "format"
  /\ pc = "format" => pc' = "gate"
  /\ pc = "gate" => pc' = "exit"
  /\ pc # "exit"
  /\ reads' # reads =>
       \/ pc = "loadSealed" /\ reads = <<>> /\ reads' = <<SealedFile>>
       \/ pc = "loadOpen" /\ OpenGiven /\ reads' = <<SealedFile, OpenFile>>
  /\ report' # report => pc = "build"
  /\ stdout' # stdout => pc = "format" /\ stdout = <<>>
  /\ (pc' = "exit" /\ exitCode' = 1) => pc = "gate"

StagesDone ==
  /\ pc \in {"build", "format", "gate"} \/ (Exited /\ exitCode # 2) =>
       reads = IF OpenGiven THEN <<SealedFile, OpenFile>> ELSE <<SealedFile>>
  /\ pc \in {"parse", "require", "loadSealed", "loadOpen", "build"} =>
       ~Built
  /\ pc \in {"format", "gate"} \/ (Exited /\ exitCode # 2) => Built
  /\ pc \in {"parse", "require", "loadSealed", "loadOpen", "build",
             "format"} => stdout = <<>>
  /\ pc = "gate" \/ (Exited /\ exitCode # 2) =>
       stdout = CompleteOutput /\ stdout # <<>>
  /\ (Exited /\ ~ErrorRun) => exitCode # 2
  /\ (Exited /\ SealedGiven /\ ~BadThreshold /\ ~Loadable(SealedDoc)) =>
       reads = <<SealedFile>> /\ exitCode = 2
  /\ (\E i \in 1..Len(reads) : reads[i] = OpenFile) => Loadable(SealedDoc)

C19_PipelineIsLinear == [][LinearStep]_vars /\ []StagesDone

\* a run that exits with 1 after both files were read and the report written
C19_Witness ==
  /\ Exited /\ exitCode = 1
  /\ reads = <<SealedFile, OpenFile>>
  /\ stdout = CompleteOutput /\ stdout # <<>>

\* a run whose sealed file fails to load although --open names a good file
C19_WitnessSealedFails ==
  /\ Exited /\ exitCode = 2
  /\ SealedGiven /\ OpenGiven /\ ~BadThreshold
  /\ ~Loadable(SealedDoc) /\ Loadable(OpenDoc)
  /\ reads = <<SealedFile>>

(***************************************************************************)
(* C20: for every sealed result set the score satisfies 0 <= score <= 100  *)
(* and is an exact multiple of 0.1, the level is one of the five names,    *)
(* score == 100.0 holds exactly when total > 0 and every sealed test       *)
(* failed, and the fallback return of classifyGap is never reached.        *)
(* The "exactly when" does not hold: rounding brings a ratio of 99.95% or  *)
(* more to 100.0, so 2000 failed of 2001 scores 100.0.                     *)
(***************************************************************************)
LevelNames == {levels[i].name : i \in 1..Len(levels)}

\* the score is in range, the level is one of the five, and the loop of
\* classifyGap returns
ScoreInRange ==
  /\ report.Report.GapScore \in 0..1000
  /\ report.Report.Level \in LevelNames
  /\ \E i \in 1..Len(levels) : report.Report.GapScore <= levels[i].threshold
  /\ <<report.Report.Level, BandIndicator(report.Report.Level)>>
       = classifyGap(report.Report.GapScore)

\* the score as written is a decimal with at most one fractional digit
\* that reads back as the score
OneDecimal(text) ==
  /\ ~ParseFloat(text).err
  /\ \A i \in 1..Len(text) : text[i] = "." => i = Len(text) - 1

WrittenInTenths ==
  JsonWritten =>
    /\ OneDecimal(stdout[1].report.gap_score)
    /\ ParseFloat(stdout[1].report.gap_score).v = report.Report.GapScore

C20_HundredIffAllFailed ==
  /\ Built =>
       LET total == Len(Items(SealedDoc))
           failed == NumFailed(Items(SealedDoc))
       IN  /\ ScoreInRange
           /\ report.Report.GapScore = 1000 <=> (total > 0 /\ failed = total)
  /\ WrittenInTenths

\* C20 as the code has it: 100.0 whenever every test failed, and only when
\* at least 99.95% of the tests failed
C20_HundredIffRoundsToHundred ==
  /\ Built =>
       LET total == Len(Items(SealedDoc))
           failed == NumFailed(Items(SealedDoc))
       IN  /\ ScoreInRange
           /\ (total > 0 /\ failed = total) => report.Report.GapScore = 1000
           /\ report.Report.GapScore = 1000 <=>
                (total > 0 /\ 2000 * failed >= 1999 * total)
  /\ WrittenInTenths

\* 2000 failed of 2001: the score is 100.0 although one test passed
C20_Witness ==
  /\ JsonWritten
  /\ Len(Items(SealedDoc)) = NearlyAllFailed[2]
  /\ NumFailed(Items(SealedDoc)) = NearlyAllFailed[1]
  /\ report.SealedTests.Passed = 1
  /\ report.Report.GapScore = 1000
  /\ report.Report.Level = "critical"
  /\ stdout[1].report.gap_score = <<"1", "0", "0">>

(***************************************************************************)
(* C21: the score is 0.0 and the level is perfect only when no sealed test *)
(* failed: for every sealed result set with failed >= 1, for any total,    *)
(* the score is greater than 0.0, the level is not perfect, and a run with *)
(* --threshold 0 exits with code 1.  It does not hold: a ratio below 0.05% *)
(* rounds to 0.0, so 1 failed of 2001 is reported as 0.0 perfect, with the *)
(* failure listed, and passes the gate of --threshold 0.                   *)
(***************************************************************************)
ThresholdIsZero == ThresholdGiven /\ argv.threshold[1] = <<"0">>

C21_PerfectOnlyWithoutFailures ==
  (Built /\ NumFailed(Items(SealedDoc)) >= 1) =>
     /\ report.Report.GapScore > 0
     /\ report.Report.Level # "perfect"
     /\ (Exited /\ ThresholdIsZero) => exitCode = 1

(***************************************************************************)
(* C22: only the exact status string "failed" counts as a failure: in both *)
(* suites a test with any other status ("passed", "skipped", "error",      *)
(* "FAILED", or no status) is counted as passed, produces no failures      *)
(* entry, does not raise the score, and is not rejected as malformed.      *)
(***************************************************************************)
ExactlyFailed(obj) == Field(obj, "status") = "failed"

NumExactlyFailed(items) ==
  Cardinality({i \in 1..Len(items) : ExactlyFailed(items[i])})

NumOtherStatus(items) ==
  Cardinality({i \in 1..Len(items) : ~ExactlyFailed(items[i])})

C22_OnlyFailedCounts ==
  /\ Built =>
       LET si == Items(SealedDoc)
       IN  /\ report.SealedTests.Failed = NumExactlyFailed(si)
           /\ report.SealedTests.Passed = NumOtherStatus(si)
           /\ Len(report.Failures.items) = NumExactlyFailed(si)
           /\ \A k \in 1..Len(report.Failures.items) :
                \E i \in 1..Len(si) :
                  /\ ExactlyFailed(si[i])
                  /\ report.Failures.items[k].TestName = Field(si[i], "name")
           /\ Len(si) <= MaxTotal =>
                report.Report.GapScore = ScoreOf[Len(si)][NumExactlyFailed(si)]
           /\ OpenGiven =>
                /\ report.OpenTests[1].Failed = NumExactlyFailed(Items(OpenDoc))
                /\ report.OpenTests[1].Passed = NumOtherStatus(Items(OpenDoc))
  /\ (Exited /\ ~ErrorRun) => (Built /\ exitCode # 2 /\ stderr = <<>>)

\* a sealed suite of "FAILED" and a test without status, an open suite of
\* "error": nothing failed, and the gate of --threshold 0 passes
C22_Witness ==
  /\ Exited /\ ThresholdIsZero /\ OpenGiven
  /\ Len(Items(SealedDoc)) = 2
  /\ Field(Items(SealedDoc)[1], "status") = "FAILED"
  /\ "status" \notin DOMAIN Items(SealedDoc)[2]
  /\ Len(Items(OpenDoc)) = 1
  /\ Field(Items(OpenDoc)[1], "status") = "error"
  /\ report.SealedTests = [Total |-> 2, Passed |-> 2, Failed |-> 0]
  /\ report.OpenTests = << [Total |-> 1, Passed |-> 1, Failed |-> 0] >>
  /\ report.Failures.items = <<>>
  /\ report.Report.GapScore = 0
  /\ exitCode = 0

(***************************************************************************)
(* C23: --format selects the summary only when it is exactly "summary";    *)
(* every other value, "xml" and the empty string included, produces the    *)
(* JSON report and is not a usage error (no exit code 2), and the          *)
(* threshold gate applies as usual.                                        *)
(***************************************************************************)
SummaryAsked == argv.format = <<"summary">>

C23_OnlySummarySelectsSummary ==
  /\ (pc \in {"gate", "exit"} /\ Built) =>
       /\ SummaryAsked => stdout = SummaryLines(report)
       /\ ~SummaryAsked => stdout = <<MarshalIndent(report)>>
       /\ SummaryAsked <=> stdout[1].kind = "headline"
  /\ (Exited /\ ~ErrorRun) =>
       /\ Built /\ stdout # <<>> /\ stderr = <<>>
       /\ exitCode = GateCode

\* --format "" writes the JSON report and the gate fails the run
C23_Witness ==
  /\ Exited /\ argv.format = <<"">>
  /\ JsonWritten /\ stderr = <<>>
  /\ ThresholdGiven /\ NumFailed(Items(SealedDoc)) = 1
  /\ exitCode = 1

\* --format xml and --format Summary write the JSON report and exit with 0
C23_WitnessOtherValues ==
  /\ Exited /\ JsonWritten /\ exitCode = 0
  /\ argv.format \in {<<"xml">>, <<"Summary">>}

(***************************************************************************)
(* C24: score, level and gate result are monotone in the number of         *)
(* failures: for a fixed total > 0 and a fixed threshold, changing one     *)
(* sealed test from passed to failed never lowers the score, never moves   *)
(* the level to a less severe band, and never changes the exit code from   *)
(* 1 to 0.  Stated on one run against the run with one failure fewer,      *)
(* whose score is the score of its sealed set.                             *)
(***************************************************************************)
ScoreAt(failed, total) ==
  IF total <= MaxTotal THEN ScoreOf[total][failed] ELSE Score(failed, total)

\* the position of a level in the table, perfect first
Severity(level) == CHOOSE i \in 1..Len(levels) : levels[i].name = level

C24_MonotoneInFailures ==
  LET total == Len(Items(SealedDoc))
      failed == NumFailed(Items(SealedDoc))
  IN  (Built /\ failed >= 1) =>
        LET before == ScoreAt(failed - 1, total)
        IN  /\ report.Report.GapScore = ScoreAt(failed, total)
            /\ before <= report.Report.GapScore
            /\ Severity(classifyGap(before)[1])
                 <= Severity(report.Report.Level)
            /\ (Exited /\ ThresholdGiven
                  /\ before > ParseFloat(argv.threshold[1]).v) =>
                 exitCode = 1

\* the second failure of two moves 50.0 significant, which passes the gate
\* of --threshold 50, to 100.0 critical, which fails it
C24_Witness ==
  /\ Exited /\ ~ErrorRun
  /\ argv.threshold = << <<"5", "0">> >>
  /\ Len(Items(SealedDoc)) = 2 /\ NumFailed(Items(SealedDoc)) = 2
  /\ ScoreAt(1, 2) = 500 /\ classifyGap(ScoreAt(1, 2))[1] = "significant"
  /\ report.Report.GapScore = 1000 /\ report.Report.Level = "critical"
  /\ exitCode = 1

\* one failure more leaves the score where it was: 2000 and 2001 of 2001
C24_WitnessSameScore ==
  /\ Built
  /\ Len(Items(SealedDoc)) = NearlyAllFailed[2]
  /\ NumFailed(Items(SealedDoc)) = NearlyAllFailed[1]
  /\ report.Report.GapScore = ScoreAt(NearlyAllFailed[2], NearlyAllFailed[2])

====
